---- MODULE Spec2Model ----
(***************************************************************************)
(* Model of the outfit recommendation service of the wardrobe app          *)
(* (src/src/services/AIService.ts) and of the recommendations screen that  *)
(* calls it (src/unnamed/part_004).                                        *)
(*                                                                         *)
(* Numbers.  Compatibility scores are multiples of 0.1 in the source; the  *)
(* model keeps them in tenths (0.7 is 7).  A pair score (color+style)/2 is *)
(* kept in twentieths, and an outfit score is the exact fraction           *)
(* num/(20*den) with num the sum of the pair scores in twentieths and den  *)
(* the number of pairs.  A Math.random() value is kept in tenths too.      *)
(*                                                                         *)
(* Strings.  An item's uri is a sequence of UTF-16 code units, so that     *)
(* Array.prototype.sort's default order and join('|') are computed, not    *)
(* assumed.  Categories, colors, occasions and weathers are TLA+ strings;  *)
(* toLowerCase is a table over the strings the model uses.                 *)
(***************************************************************************)
EXTENDS Integers, Sequences, FiniteSets, TLC

VARIABLES
    clothingItems,       \* the wardrobe (App state, handed to the service)
    numRecommendations,  \* argument of generateOutfitRecommendations
    occasion,            \* argument (Undefined when not given)
    weather,             \* argument (Undefined when not given)
    requiredCategories,  \* argument
    filteredItems,       \* local: the pool after occasion/weather filtering
    recommendations,     \* local: the recommendations collected so far
    seen,                \* local: the set of deduplication keys seen
    attempts,            \* local: the attempt counter
    result,              \* the returned list
    pc,                  \* "idle", "loop" (inside the while loop), "done", or
                         \* "threw" (the call ended with an exception)
    selectedOccasion,    \* screen state
    selectedWeather,     \* screen state
    screenRequiredCategories, \* screen state requiredCategories
    isLoading,           \* screen state
    screenRecommendations,    \* screen state recommendations (displayed)
    timers,              \* pending setTimeout callbacks, oldest first
    userEvents,          \* number of user events so far (bounds the model)
    feedbackMap,         \* screen state: outfit key -> 'like' | 'dislike'
    colorCompatibilityMatrix, \* service field, built by the constructor
    outfitRatings,       \* service field: the ratings recorded by rateOutfit
    stylePreferences,    \* service field: category -> preference
    seed,                \* the values Math.random() yields, when it is seeded
    drawn,               \* number of Math.random() calls of the current call
    calls,               \* the completed calls of a seeded run (history)
    argument,            \* the argument list a private method is applied to
    returned,            \* the value that method returned
    storage,             \* AsyncStorage: the text under key 'closetItems'
    requests,            \* AsyncStorage requests not yet settled, in issue order
    effects,             \* App: the effects still to run after a render
    history,             \* what the store held at startup and whether the
                         \* requests were served in issue order (history)
    sections             \* OutfitCreatorScreen state: the outfit sections

serviceVars == <<clothingItems, numRecommendations, occasion, weather,
                 requiredCategories, filteredItems, recommendations, seen,
                 attempts, result, pc>>

screenVars == <<selectedOccasion, selectedWeather, screenRequiredCategories,
                isLoading, screenRecommendations, timers, userEvents>>

thisVars == <<colorCompatibilityMatrix, outfitRatings, stylePreferences>>

seededVars == <<seed, drawn, calls>>

methodVars == <<argument, returned>>

appVars == <<storage, requests, effects, history>>

creatorVars == <<sections>>

otherVars == <<appVars, creatorVars>>

extraVars == <<feedbackMap, thisVars, seededVars, methodVars, otherVars>>

vars == <<serviceVars, screenVars, extraVars>>

----------------------------------------------------------------------------
(* Bounds of the model *)

MaxN == 2
MaxWardrobe == 3
MaxEvents == 2
MaxCalls == 2
MaxItems == 3

----------------------------------------------------------------------------
(* Generic helpers for JavaScript arrays (0-based in the source, 1-based here) *)

Undefined == "<undefined>"

\* JavaScript truthiness of an optional string argument
Truthy(s) == s # Undefined /\ s # ""

Includes(list, x) == \E i \in 1..Len(list) : list[i] = x

RECURSIVE Filter(_, _)
\* items.filter(item => allowed.includes(item.category))
Filter(items, allowed) ==
    IF items = <<>> THEN <<>>
    ELSE IF Includes(allowed, Head(items).category)
         THEN <<Head(items)>> \o Filter(Tail(items), allowed)
         ELSE Filter(Tail(items), allowed)

\* items.find(item => item.category === cat): the position of the first
\* match, or 0 when find returns undefined
FindIndex(items, cat) ==
    IF \E i \in 1..Len(items) : items[i].category = cat
    THEN CHOOSE i \in 1..Len(items) :
             /\ items[i].category = cat
             /\ \A j \in 1..(i - 1) : items[j].category # cat
    ELSE 0

----------------------------------------------------------------------------
(* Strings as code units: comparison, sort() and join('|') *)

Bar == <<124>>

RECURSIVE StrLess(_, _)
\* the default sort order: by UTF-16 code units, a proper prefix first
StrLess(s, t) ==
    IF t = <<>> THEN FALSE
    ELSE IF s = <<>> THEN TRUE
    ELSE IF Head(s) # Head(t) THEN Head(s) < Head(t)
    ELSE StrLess(Tail(s), Tail(t))

RECURSIVE InsertStr(_, _)
InsertStr(sorted, s) ==
    IF sorted = <<>> THEN <<s>>
    ELSE IF StrLess(s, Head(sorted)) THEN <<s>> \o sorted
    ELSE <<Head(sorted)>> \o InsertStr(Tail(sorted), s)

RECURSIVE SortStrings(_)
SortStrings(list) ==
    IF list = <<>> THEN <<>>
    ELSE InsertStr(SortStrings(SubSeq(list, 1, Len(list) - 1)), list[Len(list)])

RECURSIVE Join(_)
Join(list) ==
    IF list = <<>> THEN <<>>
    ELSE IF Len(list) = 1 THEN list[1]
    ELSE list[1] \o Bar \o Join(Tail(list))

\* outfit.items.map(i => i.uri).sort().join('|')
OutfitKey(items) == Join(SortStrings([i \in 1..Len(items) |-> items[i].uri]))

----------------------------------------------------------------------------
(* toLowerCase, as a table over the strings that are not lowercase already *)

LowerTable ==
    "T-shirt" :> "t-shirt" @@ "Shirt" :> "shirt" @@ "Jeans" :> "jeans"
    @@ "Sweatpants" :> "sweatpants" @@ "Shorts" :> "shorts"
    @@ "Jacket" :> "jacket" @@ "Hoodie" :> "hoodie" @@ "Dress" :> "dress"
    @@ "Skirt" :> "skirt" @@ "Shoes" :> "shoes" @@ "Hat" :> "hat"
    @@ "Other" :> "other"
    @@ "Red" :> "red" @@ "RED" :> "red" @@ "Blue" :> "blue" @@ "White" :> "white"
    @@ "Navy" :> "navy" @@ "NAVY" :> "navy" @@ "Beige" :> "beige"
    @@ "Grey" :> "grey" @@ "Cream" :> "cream" @@ "Teal" :> "teal"
    @@ "Casual" :> "casual" @@ "Smart Casual" :> "smart casual"
    @@ "Elegant" :> "elegant" @@ "Athletic" :> "athletic"
    @@ "Purple" :> "purple"
    @@ "toString" :> "tostring" @@ "valueOf" :> "valueof"
    @@ "hasOwnProperty" :> "hasownproperty"

ToLowerCase(s) == IF s \in DOMAIN LowerTable THEN LowerTable[s] ELSE s

----------------------------------------------------------------------------
(* Color compatibility *)

colors == <<"red", "blue", "green", "yellow", "purple", "orange", "pink",
            "brown", "black", "white", "gray">>

compatibilityRules ==
    "red" :> [green |-> 9, blue |-> 7, yellow |-> 6, purple |-> 8, orange |-> 5, pink |-> 8, brown |-> 7, black |-> 9, white |-> 8, gray |-> 7]
    @@ "blue" :> [red |-> 7, green |-> 6, yellow |-> 8, purple |-> 9, orange |-> 7, pink |-> 6, brown |-> 6, black |-> 9, white |-> 8, gray |-> 8]
    @@ "green" :> [red |-> 9, blue |-> 6, yellow |-> 7, purple |-> 6, orange |-> 8, pink |-> 5, brown |-> 8, black |-> 9, white |-> 8, gray |-> 7]
    @@ "yellow" :> [red |-> 6, blue |-> 8, green |-> 7, purple |-> 7, orange |-> 9, pink |-> 6, brown |-> 7, black |-> 9, white |-> 8, gray |-> 6]
    @@ "purple" :> [red |-> 8, blue |-> 9, green |-> 6, yellow |-> 7, orange |-> 6, pink |-> 8, brown |-> 6, black |-> 9, white |-> 8, gray |-> 7]
    @@ "orange" :> [red |-> 5, blue |-> 7, green |-> 8, yellow |-> 9, purple |-> 6, pink |-> 7, brown |-> 8, black |-> 9, white |-> 8, gray |-> 6]
    @@ "pink" :> [red |-> 8, blue |-> 6, green |-> 5, yellow |-> 6, purple |-> 8, orange |-> 7, brown |-> 5, black |-> 9, white |-> 8, gray |-> 7]
    @@ "brown" :> [red |-> 7, blue |-> 6, green |-> 8, yellow |-> 7, purple |-> 6, orange |-> 8, pink |-> 5, black |-> 9, white |-> 8, gray |-> 8]
    @@ "black" :> [red |-> 9, blue |-> 9, green |-> 9, yellow |-> 9, purple |-> 9, orange |-> 9, pink |-> 9, brown |-> 9, white |-> 8, gray |-> 9]
    @@ "white" :> [red |-> 8, blue |-> 8, green |-> 8, yellow |-> 8, purple |-> 8, orange |-> 8, pink |-> 8, brown |-> 8, black |-> 8, gray |-> 8]
    @@ "gray" :> [red |-> 7, blue |-> 8, green |-> 7, yellow |-> 6, purple |-> 7, orange |-> 6, pink |-> 7, brown |-> 8, black |-> 9, white |-> 8]

\* compatibilityRules[color1]?.[color2], with 0 standing for undefined
RuleOf(color1, color2) ==
    IF color1 \in DOMAIN compatibilityRules
       /\ color2 \in DOMAIN compatibilityRules[color1]
    THEN compatibilityRules[color1][color2]
    ELSE 0

\* faulty variant: the same-color branch is missing, so the diagonal falls to
\* the default
InitializeColorCompatibilityMatrixNoDiagonal ==
    [color1 \in {colors[i] : i \in 1..Len(colors)} |->
        [color2 \in {colors[i] : i \in 1..Len(colors)} |->
            IF RuleOf(color1, color2) # 0 THEN RuleOf(color1, color2)
            ELSE 5]]

\* the matrix as initializeColorCompatibilityMatrix builds it, in tenths
InitializeColorCompatibilityMatrix ==
    [color1 \in {colors[i] : i \in 1..Len(colors)} |->
        [color2 \in {colors[i] : i \in 1..Len(colors)} |->
            IF color1 = color2 THEN 10
            ELSE IF RuleOf(color1, color2) # 0 THEN RuleOf(color1, color2)
            ELSE 5]]

colorMapping ==
    [red |-> "red", blue |-> "blue", green |-> "green", yellow |-> "yellow",
     purple |-> "purple", orange |-> "orange", pink |-> "pink",
     brown |-> "brown", black |-> "black", white |-> "white",
     gray |-> "gray", grey |-> "gray", navy |-> "blue", beige |-> "brown",
     tan |-> "brown", cream |-> "white"]
    @@ ("dark blue" :> "blue" @@ "light blue" :> "blue"
        @@ "dark green" :> "green" @@ "light green" :> "green"
        @@ "dark red" :> "red" @@ "light red" :> "red")

\* Property names every object literal inherits from Object.prototype: a
\* lookup of one of them yields a (truthy) function or object, not undefined.
ObjectPrototypeKeys ==
    {"constructor", "toString", "valueOf", "hasOwnProperty", "__proto__"}

InheritedValue == "<Object.prototype member>"

\* colorMapping[item.color.toLowerCase()] || 'gray'
ExtractColorFromItem(item) ==
    LET color == ToLowerCase(item.color)
    IN  IF color \in DOMAIN colorMapping THEN colorMapping[color]
        ELSE IF color \in ObjectPrototypeKeys THEN InheritedValue
        ELSE "gray"

\* this.colorCompatibilityMatrix[color1]?.[color2] || 0.5, in tenths
CalculateColorCompatibility(item1, item2) ==
    LET color1 == ExtractColorFromItem(item1)
        color2 == ExtractColorFromItem(item2)
    IN  IF color1 \in DOMAIN colorCompatibilityMatrix
           /\ color2 \in DOMAIN colorCompatibilityMatrix[color1]
           /\ colorCompatibilityMatrix[color1][color2] # 0
        THEN colorCompatibilityMatrix[color1][color2]
        ELSE 5

----------------------------------------------------------------------------
(* Style compatibility *)

\* faulty variant: the dress row rates the skirt lower than the skirt row
\* rates the dress
styleRulesDressSkirtDirected ==
    "t-shirt" :> ("jeans" :> 9 @@ "shorts" :> 8 @@ "sweatpants" :> 7 @@ "shirt" :> 6 @@ "dress" :> 3 @@ "skirt" :> 4)
    @@ "shirt" :> ("jeans" :> 9 @@ "shorts" :> 6 @@ "sweatpants" :> 5 @@ "t-shirt" :> 6 @@ "dress" :> 4 @@ "skirt" :> 8)
    @@ "jeans" :> ("t-shirt" :> 9 @@ "shirt" :> 9 @@ "shorts" :> 6 @@ "sweatpants" :> 5 @@ "dress" :> 3 @@ "skirt" :> 4)
    @@ "dress" :> ("t-shirt" :> 3 @@ "shirt" :> 4 @@ "jeans" :> 3 @@ "shorts" :> 2 @@ "sweatpants" :> 2 @@ "skirt" :> 2)
    @@ "skirt" :> ("t-shirt" :> 4 @@ "shirt" :> 8 @@ "jeans" :> 4 @@ "shorts" :> 3 @@ "sweatpants" :> 3 @@ "dress" :> 6)

styleRules ==
    "t-shirt" :> ("jeans" :> 9 @@ "shorts" :> 8 @@ "sweatpants" :> 7 @@ "shirt" :> 6 @@ "dress" :> 3 @@ "skirt" :> 4)
    @@ "shirt" :> ("jeans" :> 9 @@ "shorts" :> 6 @@ "sweatpants" :> 5 @@ "t-shirt" :> 6 @@ "dress" :> 4 @@ "skirt" :> 8)
    @@ "jeans" :> ("t-shirt" :> 9 @@ "shirt" :> 9 @@ "shorts" :> 6 @@ "sweatpants" :> 5 @@ "dress" :> 3 @@ "skirt" :> 4)
    @@ "dress" :> ("t-shirt" :> 3 @@ "shirt" :> 4 @@ "jeans" :> 3 @@ "shorts" :> 2 @@ "sweatpants" :> 2 @@ "skirt" :> 6)
    @@ "skirt" :> ("t-shirt" :> 4 @@ "shirt" :> 8 @@ "jeans" :> 4 @@ "shorts" :> 3 @@ "sweatpants" :> 3 @@ "dress" :> 6)

\* A value calculateStyleCompatibility can return: a number, kept in tenths,
\* or a member inherited from Object.prototype (a function or an object),
\* which is truthy and so is returned as it is.
Number(tenths) == [number |-> TRUE, tenths |-> tenths]

NotANumber == [number |-> FALSE, tenths |-> 0]

\* styleRules[category1]?.[category2] || 0.5.  styleRules and its rows are
\* object literals: styleRules['constructor'] is the Object function, whose
\* 'constructor' and '__proto__' are Function and Function.prototype;
\* styleRules['__proto__'] is Object.prototype, whose 'constructor' is Object
\* and whose '__proto__' is null.
CalculateStyleCompatibility(item1, item2) ==
    LET category1 == ToLowerCase(item1.category)
        category2 == ToLowerCase(item2.category)
    IN  IF category1 \in DOMAIN styleRules
        THEN IF category2 \in DOMAIN styleRules[category1]
             THEN IF styleRules[category1][category2] # 0
                  THEN Number(styleRules[category1][category2])
                  ELSE Number(5)
             ELSE IF category2 \in ObjectPrototypeKeys THEN NotANumber
             ELSE Number(5)
        ELSE IF category1 = "constructor" /\ category2 \in ObjectPrototypeKeys
             THEN NotANumber
        ELSE IF category1 = "__proto__" /\ category2 = "constructor"
             THEN NotANumber
        ELSE Number(5)

----------------------------------------------------------------------------
(* Outfit score, style and reason *)

\* faulty variant: the later item is passed as the first argument
PairScoreSwapped(items, i, j) ==
    CalculateColorCompatibility(items[j], items[i])
    + CalculateStyleCompatibility(items[j], items[i]).tenths

\* the pair (i, j) contributes (colorScore + styleScore)/2: in twentieths,
\* when styleScore is a number
PairScore(items, i, j) ==
    CalculateColorCompatibility(items[i], items[j])
    + CalculateStyleCompatibility(items[i], items[j]).tenths

\* colorScore + styleScore is a string when styleScore is not a number, and
\* the total is NaN from then on
PairIsNaN(items, i, j) == ~CalculateStyleCompatibility(items[i], items[j]).number

RECURSIVE SumPairs(_, _, _)
\* the double loop over i < j, in loop order, from pair (i, j) on
SumPairs(items, i, j) ==
    IF i > Len(items) THEN 0
    ELSE IF j > Len(items) THEN SumPairs(items, i + 1, i + 2)
    ELSE PairScore(items, i, j) + SumPairs(items, i, j + 1)

\* the score totalScore/comparisons as the fraction num/(20*den), or NaN
CalculateOutfitScore(items) ==
    IF Len(items) < 2 THEN [num |-> 0, den |-> 1, nan |-> FALSE]
    ELSE [num |-> SumPairs(items, 1, 2),
          den |-> (Len(items) * (Len(items) - 1)) \div 2,
          nan |-> \E i, j \in 1..Len(items) : i < j /\ PairIsNaN(items, i, j)]

\* b.score - a.score > 0 for two scores (a difference with NaN is NaN)
ScoreLess(a, b) == ~a.nan /\ ~b.nan /\ a.num * b.den < b.num * a.den

\* faulty variant: the t-shirt and jeans rule is tried before the shirt and
\* jeans rule
ClassifyOutfitStyleCasualFirst(items) ==
    LET categories == [i \in 1..Len(items) |-> ToLowerCase(items[i].category)]
    IN  IF Includes(categories, "dress") THEN "Elegant"
        ELSE IF Includes(categories, "t-shirt") /\ Includes(categories, "jeans")
             THEN "Casual"
        ELSE IF Includes(categories, "shirt") /\ Includes(categories, "jeans")
             THEN "Smart Casual"
        ELSE IF Includes(categories, "sweatpants") \/ Includes(categories, "shorts")
             THEN "Athletic"
        ELSE "Casual"

ClassifyOutfitStyle(items) ==
    LET categories == [i \in 1..Len(items) |-> ToLowerCase(items[i].category)]
    IN  IF Includes(categories, "dress") THEN "Elegant"
        ELSE IF Includes(categories, "shirt") /\ Includes(categories, "jeans")
             THEN "Smart Casual"
        ELSE IF Includes(categories, "t-shirt") /\ Includes(categories, "jeans")
             THEN "Casual"
        ELSE IF Includes(categories, "sweatpants") \/ Includes(categories, "shorts")
             THEN "Athletic"
        ELSE "Casual"

reasons == <<"Great", "Perfect", "Stylish", "Classic", "Trendy">>

Min(a, b) == IF a < b THEN a ELSE b

\* reasons[Math.min(Math.floor(score * reasons.length), reasons.length - 1)]:
\* the template's first word and the lowercased style it is filled with
GenerateRecommendationReason(items, score, style) ==
    LET index == (score.num * Len(reasons)) \div (20 * score.den)
    IN  IF score.nan THEN <<Undefined>>
        ELSE <<reasons[Min(index, Len(reasons) - 1) + 1], ToLowerCase(style)>>

----------------------------------------------------------------------------
(* Filters *)

occasionMap ==
    [Casual |-> <<"T-shirt", "Shirt", "Jeans", "Sweatpants", "Shorts", "Hoodie", "Shoes">>,
     Formal |-> <<"Shirt", "Dress", "Skirt", "Shoes">>,
     Athletic |-> <<"T-shirt", "Sweatpants", "Shorts", "Shoes">>,
     Business |-> <<"Shirt", "Dress", "Skirt", "Shoes">>]

weatherMap ==
    [Hot |-> <<"T-shirt", "Shorts", "Skirt", "Dress", "Hat", "Shoes">>,
     Mild |-> <<"T-shirt", "Shirt", "Jeans", "Shorts", "Skirt", "Dress", "Shoes">>,
     Cold |-> <<"Jacket", "Sweatpants", "Jeans", "Shirt", "Hat", "Shoes">>,
     Rainy |-> <<"Jacket", "Jeans", "Sweatpants", "Shirt", "Hat", "Shoes">>]

\* faulty variant: the occasion filter keeps every item
FilterByOccasionSkipped(items, occ) == items

\* items.filter(item => (occasionMap[occasion] || []).includes(item.category))
FilterByOccasion(items, occ) ==
    Filter(items, IF occ \in DOMAIN occasionMap THEN occasionMap[occ] ELSE <<>>)

\* faulty variant: the weather filter keeps every item
FilterByWeatherSkipped(items, w) == items

\* the weather block of generateOutfitRecommendations
FilterByWeather(items, w) ==
    Filter(items, IF w \in DOMAIN weatherMap THEN weatherMap[w] ELSE <<>>)

\* filteredItems as generateOutfitRecommendations computes it
FilteredPool(items, occ, w) ==
    LET byOccasion == IF Truthy(occ) THEN FilterByOccasion(items, occ) ELSE items
    IN  IF Truthy(w) THEN FilterByWeather(byOccasion, w) ELSE byOccasion

\* occasionMap[occasion] || [] is not a list when the occasion names a member
\* the table inherits from Object.prototype: allowed.includes is then not a
\* function, and the filter callback throws a TypeError on the first item
FilterByOccasionThrows(items, occ) ==
    /\ occ \notin DOMAIN occasionMap
    /\ occ \in ObjectPrototypeKeys
    /\ items # <<>>

\* the same for weatherMap[weather] || []
FilterByWeatherThrows(items, w) ==
    /\ w \notin DOMAIN weatherMap
    /\ w \in ObjectPrototypeKeys
    /\ items # <<>>

\* the list filteredItems holds when a filter throws: the wardrobe when it is
\* the occasion filter, the occasion filter's list when it is the weather one
PoolAtThrow(items, occ, w) ==
    IF Truthy(occ) /\ ~FilterByOccasionThrows(items, occ)
    THEN FilterByOccasion(items, occ)
    ELSE items

\* one of the two filters of generateOutfitRecommendations throws
FilteredPoolThrows(items, occ, w) ==
    \/ Truthy(occ) /\ FilterByOccasionThrows(items, occ)
    \/ Truthy(w) /\ FilterByWeatherThrows(PoolAtThrow(items, occ, w), w)

----------------------------------------------------------------------------
(* Candidate generation.  Math.random() yields a value in [0,1); the model  *)
(* draws it from RandomValues, in tenths, and the generator is the set of   *)
(* outfits the draws can produce.  The values fall on both sides of each    *)
(* accessory threshold (0.3, 0.5, 0.7), the thresholds themselves included, *)
(* and reach every index of a list of up to 4 items.                        *)

RandomValues == {0, 3, 5, 7, 9}

\* Math.floor(Math.random() * length), for the draw r
RandomIndex(r, length) == (r * length) \div 10

\* list[Math.floor(Math.random() * list.length)] over all draws
PickRandom(list) == {list[RandomIndex(r, Len(list)) + 1] : r \in RandomValues}

outfitTemplate ==
    <<<<"T-shirt", "Shirt", "Dress", "Hoodie", "Jacket">>,
      <<"Jeans", "Sweatpants", "Shorts", "Skirt">>,
      <<"Shoes">>,
      <<"Hat">>>>

EmptyOutfit == [items |-> <<>>, usedCategories |-> {}]

\* items.push(item); usedCategories.add(cat)
Push(o, item, cat) ==
    [items |-> Append(o.items, item), usedCategories |-> o.usedCategories \cup {cat}]

\* faulty variant: the bottom is picked and pushed before the top
BaseOutfitsBottomFirst(items, template) ==
    LET dress == FindIndex(items, "Dress")
        tops == Filter(items, template[1])
        bottoms == Filter(items, template[2])
        withBottom == IF Len(bottoms) > 0
                      THEN {Push(EmptyOutfit, bottom, bottom.category) :
                                bottom \in PickRandom(bottoms)}
                      ELSE {EmptyOutfit}
    IN  IF dress # 0 THEN {Push(EmptyOutfit, items[dress], "Dress")}
        ELSE IF Len(tops) > 0
             THEN {Push(o, top, top.category) : o \in withBottom, top \in PickRandom(tops)}
             ELSE withBottom

\* faulty variant: a top and a bottom are picked after the dress too
BaseOutfitsDressAndSeparates(items, template) ==
    LET dress == FindIndex(items, "Dress")
        tops == Filter(items, template[1])
        bottoms == Filter(items, template[2])
        start == IF dress # 0 THEN Push(EmptyOutfit, items[dress], "Dress")
                 ELSE EmptyOutfit
        withTop == IF Len(tops) > 0
                   THEN {Push(start, top, top.category) : top \in PickRandom(tops)}
                   ELSE {start}
    IN  IF Len(bottoms) > 0
        THEN {Push(o, bottom, bottom.category) :
                  o \in withTop, bottom \in PickRandom(bottoms)}
        ELSE withTop

\* Strategy 1 and 2: a dress, or else a top and a bottom
BaseOutfits(items, template) ==
    LET dress == FindIndex(items, "Dress")
        tops == Filter(items, template[1])
        bottoms == Filter(items, template[2])
        withTop == IF Len(tops) > 0
                   THEN {Push(EmptyOutfit, top, top.category) : top \in PickRandom(tops)}
                   ELSE {EmptyOutfit}
    IN  IF dress # 0 THEN {Push(EmptyOutfit, items[dress], "Dress")}
        ELSE IF Len(bottoms) > 0
             THEN {Push(o, bottom, bottom.category) :
                       o \in withTop, bottom \in PickRandom(bottoms)}
             ELSE withTop

\* faulty variant: the test of usedCategories is inverted
AddRequiredCategoryInverted(items, o, cat) ==
    LET candidates == Filter(items, <<cat>>)
    IN  IF cat \in o.usedCategories /\ Len(candidates) > 0
        THEN {Push(o, picked, cat) : picked \in PickRandom(candidates)}
        ELSE {o}

\* Strategy 3, for one required category
AddRequiredCategory(items, o, cat) ==
    LET candidates == Filter(items, <<cat>>)
    IN  IF cat \notin o.usedCategories /\ Len(candidates) > 0
        THEN {Push(o, picked, cat) : picked \in PickRandom(candidates)}
        ELSE {o}

RECURSIVE AddRequired(_, _, _)
\* Strategy 3: the loop over requiredCategories, in order
AddRequired(items, outfits, required) ==
    IF required = <<>> THEN outfits
    ELSE AddRequired(items,
                     UNION {AddRequiredCategory(items, o, Head(required)) : o \in outfits},
                     Tail(required))

\* faulty variant: usedCategories is not consulted
AddAccessoryUnchecked(items, o, cat, threshold) ==
    LET list == Filter(items, <<cat>>)
    IN  IF Len(list) > 0
        THEN UNION {IF r > threshold
                    THEN {Push(o, picked, cat) : picked \in PickRandom(list)}
                    ELSE {o} : r \in RandomValues}
        ELSE {o}

\* Strategy 4, for one accessory category: included when the list is not
\* empty, the draw exceeds the threshold (in tenths) and the category is unused
AddAccessory(items, o, cat, threshold) ==
    LET list == Filter(items, <<cat>>)
    IN  IF Len(list) > 0
        THEN UNION {IF r > threshold /\ cat \notin o.usedCategories
                    THEN {Push(o, picked, cat) : picked \in PickRandom(list)}
                    ELSE {o} : r \in RandomValues}
        ELSE {o}

\* every outfit (item list) generateSingleOutfitWithRequired can return
GenerateSingleOutfitWithRequired(items, template, required) ==
    LET base == BaseOutfits(items, template)
        withRequired == AddRequired(items, base, required)
        withShoes == UNION {AddAccessory(items, o, "Shoes", 3) : o \in withRequired}
        withHats == UNION {AddAccessory(items, o, "Hat", 5) : o \in withShoes}
        withOthers == UNION {AddAccessory(items, o, "Other", 7) : o \in withHats}
    IN  {o.items : o \in withOthers}

----------------------------------------------------------------------------
(* Candidate generation from a seeded Math.random(): the call number k      *)
(* yields the value source[k mod Len(source)], so a run can be repeated     *)
(* with the same draws.  The outfit record carries the number of draws made.*)

\* Math.random(), for the call number k (from 0) of the seeded source
RandomAt(source, k) == source[(k % Len(source)) + 1]

\* picked = list[Math.floor(Math.random() * list.length)]; items.push(picked);
\* usedCategories.add(picked.category): one draw
PushDrawn(o, list, source) ==
    LET picked == list[RandomIndex(RandomAt(source, o.drawn), Len(list)) + 1]
    IN  [items |-> Append(o.items, picked),
         usedCategories |-> o.usedCategories \cup {picked.category},
         drawn |-> o.drawn + 1]

\* Strategy 1 and 2: find makes no draw, a top and a bottom one draw each
BaseOutfitDrawn(items, template, source, k) ==
    LET start == [items |-> <<>>, usedCategories |-> {}, drawn |-> k]
        dress == FindIndex(items, "Dress")
        tops == Filter(items, template[1])
        bottoms == Filter(items, template[2])
        withTop == IF Len(tops) > 0 THEN PushDrawn(start, tops, source) ELSE start
    IN  IF dress # 0
        THEN [start EXCEPT !.items = <<items[dress]>>, !.usedCategories = {"Dress"}]
        ELSE IF Len(bottoms) > 0 THEN PushDrawn(withTop, bottoms, source)
             ELSE withTop

RECURSIVE AddRequiredDrawn(_, _, _, _)
\* Strategy 3: one draw for every required category that is added
AddRequiredDrawn(items, o, required, source) ==
    IF required = <<>> THEN o
    ELSE LET cat == Head(required)
             candidates == Filter(items, <<cat>>)
         IN  AddRequiredDrawn(items,
                              IF cat \notin o.usedCategories /\ Len(candidates) > 0
                              THEN PushDrawn(o, candidates, source)
                              ELSE o,
                              Tail(required), source)

\* Strategy 4, for one accessory category: list.length > 0 && Math.random() >
\* threshold && !usedCategories.has(cat) makes its draw whenever the list is
\* not empty, and the pick makes a second one
AddAccessoryDrawn(items, o, cat, threshold, source) ==
    LET list == Filter(items, <<cat>>)
        gated == [o EXCEPT !.drawn = @ + 1]
    IN  IF Len(list) = 0 THEN o
        ELSE IF RandomAt(source, o.drawn) > threshold /\ cat \notin o.usedCategories
             THEN PushDrawn(gated, list, source)
             ELSE gated

\* generateSingleOutfitWithRequired when k draws were made before it: the
\* outfit it returns and the number of draws made after it
GenerateSingleOutfitWithRequiredDrawn(items, template, required, source, k) ==
    LET base == BaseOutfitDrawn(items, template, source, k)
        withRequired == AddRequiredDrawn(items, base, required, source)
        withShoes == AddAccessoryDrawn(items, withRequired, "Shoes", 3, source)
        withHats == AddAccessoryDrawn(items, withShoes, "Hat", 5, source)
    IN  AddAccessoryDrawn(items, withHats, "Other", 7, source)

----------------------------------------------------------------------------
(* generateOutfitRecommendations.  The locals of the loop are the record    *)
(* st = [recommendations, seen, attempts].                                  *)

\* faulty variant: one recommendation too many is collected
LoopConditionCountOffByOne(st, n) ==
    /\ Len(st.recommendations) <= n
    /\ st.attempts < n * 10

\* faulty variant: one attempt too many is made
LoopConditionBudgetOffByOne(st, n) ==
    /\ Len(st.recommendations) < n
    /\ st.attempts <= n * 10

\* the while condition
LoopCondition(st, n) ==
    /\ Len(st.recommendations) < n
    /\ st.attempts < n * 10

\* faulty variant: only the empty outfit is discarded
TooSmallOnlyEmpty(items) == Len(items) < 1

\* outfit.items.length < 2
TooSmall(items) == Len(items) < 2

\* faulty variant: the key is never found
SeenHasNever(keys, key) == FALSE

\* faulty variant: an outfit the user disliked counts as seen
SeenHasOrDisliked(keys, key) ==
    \/ key \in keys
    \/ key \in DOMAIN feedbackMap /\ feedbackMap[key] = "dislike"

\* seen.has(key)
SeenHas(keys, key) == key \in keys

\* the entry pushed for an accepted outfit
Recommendation(items) ==
    LET score == CalculateOutfitScore(items)
        style == ClassifyOutfitStyle(items)
    IN  [items |-> items,
         score |-> score,
         reason |-> GenerateRecommendationReason(items, score, style),
         style |-> style]

\* the body of the while loop, for the outfit the generator returned
LoopBody(st, items) ==
    IF TooSmall(items)
    THEN [st EXCEPT !.attempts = @ + 1]
    ELSE LET key == OutfitKey(items)
         IN  IF ~SeenHas(st.seen, key)
             THEN [recommendations |-> Append(st.recommendations, Recommendation(items)),
                   seen |-> st.seen \cup {key},
                   attempts |-> st.attempts + 1]
             ELSE [st EXCEPT !.attempts = @ + 1]

RECURSIVE InsertByScore(_, _)
\* x goes before the first entry the comparator (a, b) => b.score - a.score
\* places after it, that is the first entry of a smaller score
InsertByScore(sorted, x) ==
    IF sorted = <<>> THEN <<x>>
    ELSE IF ScoreLess(Head(sorted).score, x.score) THEN <<x>> \o sorted
    ELSE <<Head(sorted)>> \o InsertByScore(Tail(sorted), x)

\* faulty variant: the list is returned in generation order
SortByScoreSkipped(list) == list

RECURSIVE SortByScore(_)
\* recommendations.sort((a, b) => b.score - a.score): stable, descending
SortByScore(list) ==
    IF list = <<>> THEN <<>>
    ELSE InsertByScore(SortByScore(SubSeq(list, 1, Len(list) - 1)), list[Len(list)])

\* faulty variant: the set of seen keys is kept from one call to the next
InitialLocalsSeenKept == [recommendations |-> <<>>, seen |-> seen, attempts |-> 0]

InitialLocals == [recommendations |-> <<>>, seen |-> {}, attempts |-> 0]

RECURSIVE RunLoop(_, _, _)
\* the locals the loop can end with, from the locals in sts, when the
\* generator can return the outfits in candidates
RunLoop(sts, candidates, n) ==
    LET running == {st \in sts : LoopCondition(st, n)}
    IN  IF running = {} THEN sts
        ELSE RunLoop((sts \ running)
                         \cup {LoopBody(st, items) : st \in running, items \in candidates},
                     candidates, n)

\* a whole call of generateOutfitRecommendations: the locals it can end with
\* over all random draws (the returned list is the sorted recommendations)
GenerateOutfitRecommendations(items, n, occ, w, required) ==
    RunLoop({InitialLocals},
            GenerateSingleOutfitWithRequired(FilteredPool(items, occ, w),
                                             outfitTemplate, required),
            n)

Locals == [recommendations |-> recommendations, seen |-> seen, attempts |-> attempts]

\* faulty variant: the filters remove the items from the caller's array
CallFilteringInPlace(n, occ, w, required) ==
    /\ pc = "idle"
    /\ ~FilteredPoolThrows(clothingItems, occ, w)
    /\ numRecommendations' = n
    /\ occasion' = occ
    /\ weather' = w
    /\ requiredCategories' = required
    /\ filteredItems' = FilteredPool(clothingItems, occ, w)
    /\ clothingItems' = FilteredPool(clothingItems, occ, w)
    /\ recommendations' = InitialLocals.recommendations
    /\ seen' = InitialLocals.seen
    /\ attempts' = InitialLocals.attempts
    /\ pc' = "loop"
    /\ UNCHANGED <<result, screenVars, extraVars>>

\* generateOutfitRecommendations up to the loop: the filters and the locals
Call(n, occ, w, required) ==
    /\ pc = "idle"
    /\ ~FilteredPoolThrows(clothingItems, occ, w)
    /\ numRecommendations' = n
    /\ occasion' = occ
    /\ weather' = w
    /\ requiredCategories' = required
    /\ filteredItems' = FilteredPool(clothingItems, occ, w)
    /\ recommendations' = InitialLocals.recommendations
    /\ seen' = InitialLocals.seen
    /\ attempts' = InitialLocals.attempts
    /\ pc' = "loop"
    /\ UNCHANGED <<clothingItems, result, screenVars, extraVars>>

\* generateOutfitRecommendations when a filter throws: the call ends with the
\* TypeError, after recommendations and seen were initialised
CallThrows(n, occ, w, required) ==
    /\ pc = "idle"
    /\ FilteredPoolThrows(clothingItems, occ, w)
    /\ numRecommendations' = n
    /\ occasion' = occ
    /\ weather' = w
    /\ requiredCategories' = required
    /\ filteredItems' = PoolAtThrow(clothingItems, occ, w)
    /\ recommendations' = InitialLocals.recommendations
    /\ seen' = InitialLocals.seen
    /\ pc' = "threw"
    /\ UNCHANGED <<clothingItems, attempts, result, screenVars, extraVars>>

\* one iteration of the while loop, for one outcome of the random draws
LoopIteration ==
    /\ pc = "loop"
    /\ LoopCondition(Locals, numRecommendations)
    /\ \E items \in GenerateSingleOutfitWithRequired(filteredItems, outfitTemplate,
                                                      requiredCategories) :
          LET st == LoopBody(Locals, items)
          IN  /\ recommendations' = st.recommendations
              /\ seen' = st.seen
              /\ attempts' = st.attempts
    /\ UNCHANGED <<clothingItems, numRecommendations, occasion, weather,
                   requiredCategories, filteredItems, result, pc, screenVars,
                   extraVars>>

\* one iteration of the while loop when Math.random() is seeded
SeededLoopIteration ==
    /\ pc = "loop"
    /\ seed # <<>>
    /\ LoopCondition(Locals, numRecommendations)
    /\ LET outfit == GenerateSingleOutfitWithRequiredDrawn(
                          filteredItems, outfitTemplate, requiredCategories, seed, drawn)
           st == LoopBody(Locals, outfit.items)
       IN  /\ recommendations' = st.recommendations
           /\ seen' = st.seen
           /\ attempts' = st.attempts
           /\ drawn' = outfit.drawn
    /\ UNCHANGED <<clothingItems, numRecommendations, occasion, weather,
                   requiredCategories, filteredItems, result, pc, screenVars,
                   feedbackMap, thisVars, seed, calls, methodVars, otherVars>>

\* the loop has ended: sort and return
Return ==
    /\ pc = "loop"
    /\ ~LoopCondition(Locals, numRecommendations)
    /\ result' = SortByScore(recommendations)
    /\ pc' = "done"
    /\ UNCHANGED <<clothingItems, numRecommendations, occasion, weather,
                   requiredCategories, filteredItems, recommendations, seen,
                   attempts, screenVars, extraVars>>

----------------------------------------------------------------------------
(* The recommendations screen (AIRecommendationsScreen).  A pending         *)
(* setTimeout callback is the closure of the render that scheduled it: the  *)
(* selections and required categories of that render.  Callbacks of equal   *)
(* delay run in the order they were scheduled.                              *)

OCCASION_OPTIONS == <<"All", "Casual", "Formal", "Athletic", "Business">>
WEATHER_OPTIONS == <<"Any", "Hot", "Mild", "Cold", "Rainy">>

UiCount == 6

\* faulty variant: the selection is passed on as it is
OccasionArgUnmapped(selected) == selected

\* selectedOccasion === 'All' ? undefined : selectedOccasion
OccasionArg(selected) == IF selected = "All" THEN Undefined ELSE selected

\* selectedWeather === 'Any' ? undefined : selectedWeather
WeatherArg(selected) == IF selected = "Any" THEN Undefined ELSE selected

Closure(so, sw, required) ==
    [selectedOccasion |-> so, selectedWeather |-> sw, requiredCategories |-> required]

\* generateRecommendations, called in the render whose state is so, sw, required
GenerateRecommendations(so, sw, required) ==
    IF Len(clothingItems) < 2
    THEN UNCHANGED <<isLoading, timers>>
    ELSE /\ isLoading' = TRUE
         /\ timers' = Append(timers, Closure(so, sw, required))

\* faulty variant: the effect calls the generateRecommendations of the render
\* before the change, which still holds the old occasion
SetSelectedOccasionStale(o) ==
    /\ pc = "idle"
    /\ userEvents < MaxEvents
    /\ o # selectedOccasion
    /\ selectedOccasion' = o
    /\ GenerateRecommendations(selectedOccasion, selectedWeather,
                               screenRequiredCategories)
    /\ userEvents' = userEvents + 1
    /\ UNCHANGED <<extraVars, serviceVars, selectedWeather, screenRequiredCategories,
                   screenRecommendations>>

\* the occasion picker changes the selection; the effect on
\* [clothingItems, selectedOccasion, selectedWeather] runs after the render
SetSelectedOccasion(o) ==
    /\ pc = "idle"
    /\ userEvents < MaxEvents
    /\ o # selectedOccasion
    /\ selectedOccasion' = o
    /\ GenerateRecommendations(o, selectedWeather, screenRequiredCategories)
    /\ userEvents' = userEvents + 1
    /\ UNCHANGED <<extraVars, serviceVars, selectedWeather, screenRequiredCategories,
                   screenRecommendations>>

\* the weather picker changes the selection; the same effect runs
SetSelectedWeather(w) ==
    /\ pc = "idle"
    /\ userEvents < MaxEvents
    /\ w # selectedWeather
    /\ selectedWeather' = w
    /\ GenerateRecommendations(selectedOccasion, w, screenRequiredCategories)
    /\ userEvents' = userEvents + 1
    /\ UNCHANGED <<extraVars, serviceVars, selectedOccasion, screenRequiredCategories,
                   screenRecommendations>>

\* the Refresh button: onPress={generateRecommendations}
Refresh ==
    /\ pc = "idle"
    /\ userEvents < MaxEvents
    /\ GenerateRecommendations(selectedOccasion, selectedWeather,
                               screenRequiredCategories)
    /\ userEvents' = userEvents + 1
    /\ UNCHANGED <<extraVars, serviceVars, selectedOccasion, selectedWeather,
                   screenRequiredCategories, screenRecommendations>>

\* prev.includes(cat) ? prev.filter(c => c !== cat) : [...prev, cat]
Toggled(prev, cat) ==
    IF Includes(prev, cat) THEN SelectSeq(prev, LAMBDA c : c # cat)
    ELSE Append(prev, cat)

\* a required-category checkbox is pressed (no effect depends on the list)
ToggleCategory(cat) ==
    /\ pc = "idle"
    /\ userEvents < MaxEvents
    /\ screenRequiredCategories' = Toggled(screenRequiredCategories, cat)
    /\ userEvents' = userEvents + 1
    /\ UNCHANGED <<extraVars, serviceVars, selectedOccasion, selectedWeather, isLoading,
                   timers, screenRecommendations>>

\* the oldest pending setTimeout callback runs: the whole service call, then
\* setRecommendations and setIsLoading(false)
TimerFires ==
    /\ pc = "idle"
    /\ timers # <<>>
    /\ LET c == Head(timers)
           occ == OccasionArg(c.selectedOccasion)
           w == WeatherArg(c.selectedWeather)
       IN  /\ numRecommendations' = UiCount
           /\ occasion' = occ
           /\ weather' = w
           /\ requiredCategories' = c.requiredCategories
           /\ filteredItems' = FilteredPool(clothingItems, occ, w)
           /\ \E st \in GenerateOutfitRecommendations(clothingItems, UiCount, occ, w,
                                                      c.requiredCategories) :
                 /\ recommendations' = st.recommendations
                 /\ seen' = st.seen
                 /\ attempts' = st.attempts
                 /\ result' = SortByScore(st.recommendations)
                 /\ screenRecommendations' = SortByScore(st.recommendations)
    /\ isLoading' = FALSE
    /\ timers' = Tail(timers)
    /\ UNCHANGED <<clothingItems, pc, selectedOccasion, selectedWeather,
                   screenRequiredCategories, userEvents, extraVars>>

----------------------------------------------------------------------------
(* Feedback: the service's rateOutfit and updateStylePreferences and the    *)
(* screen's like and dislike buttons.  The writes to AsyncStorage are left  *)
(* out: the service reads the store in its constructor only.                *)

\* rateOutfit(outfitId, rating), with Date.now() yielding now
RateOutfit(outfitId, rating, now) ==
    /\ pc = "idle"
    /\ userEvents < MaxEvents
    /\ outfitRatings' = Append(outfitRatings,
                               [outfitId |-> outfitId, rating |-> rating,
                                timestamp |-> now])
    /\ userEvents' = userEvents + 1
    /\ UNCHANGED <<serviceVars, selectedOccasion, selectedWeather,
                   screenRequiredCategories, isLoading, screenRecommendations,
                   timers, feedbackMap, colorCompatibilityMatrix,
                   stylePreferences, seededVars, methodVars, otherVars>>

\* updateStylePreferences(category, preference)
UpdateStylePreferences(category, preference) ==
    /\ pc = "idle"
    /\ userEvents < MaxEvents
    /\ stylePreferences' = (category :> preference) @@ stylePreferences
    /\ userEvents' = userEvents + 1
    /\ UNCHANGED <<serviceVars, selectedOccasion, selectedWeather,
                   screenRequiredCategories, isLoading, screenRecommendations,
                   timers, feedbackMap, colorCompatibilityMatrix,
                   outfitRatings, seededVars, methodVars, otherVars>>

\* handleLike and handleDislike: { ...feedbackMap, [key]: tag } for the
\* recommendation shown at position i
SetFeedback(i, tag) ==
    /\ pc = "idle"
    /\ userEvents < MaxEvents
    /\ i \in 1..Len(screenRecommendations)
    /\ feedbackMap' = (OutfitKey(screenRecommendations[i].items) :> tag) @@ feedbackMap
    /\ userEvents' = userEvents + 1
    /\ UNCHANGED <<serviceVars, selectedOccasion, selectedWeather,
                   screenRequiredCategories, isLoading, screenRecommendations,
                   timers, thisVars, seededVars, methodVars, otherVars>>

HandleLike(i) == SetFeedback(i, "like")

HandleDislike(i) == SetFeedback(i, "dislike")

\* what a completed call is remembered by: its arguments, the feedback
\* recorded when it ran, and the list it returned
CallRecord ==
    [clothingItems |-> clothingItems,
     numRecommendations |-> numRecommendations,
     occasion |-> occasion,
     weather |-> weather,
     requiredCategories |-> requiredCategories,
     outfitRatings |-> outfitRatings,
     stylePreferences |-> stylePreferences,
     feedbackMap |-> feedbackMap,
     result |-> result]

\* the end of the setTimeout callback: setRecommendations(newRecommendations)
\* and setIsLoading(false).  The call is remembered, and the seeded source is
\* rewound so that the next call sees the same draws.
SetRecommendations ==
    /\ pc = "done"
    /\ screenRecommendations' = result
    /\ isLoading' = FALSE
    /\ calls' = Append(calls, CallRecord)
    /\ drawn' = 0
    /\ pc' = "idle"
    /\ UNCHANGED <<clothingItems, numRecommendations, occasion, weather,
                   requiredCategories, filteredItems, recommendations, seen,
                   attempts, result, selectedOccasion, selectedWeather,
                   screenRequiredCategories, timers, userEvents, feedbackMap,
                   thisVars, seed, methodVars, otherVars>>

----------------------------------------------------------------------------
(* The wardrobes and arguments the service is called with *)

uriA == <<97>>
uriB == <<98>>
uriC == <<99>>
uriAbarB == <<97, 124, 98>>

Catalogue ==
    <<[uri |-> uriAbarB, category |-> "Shirt", color |-> "White"],
      [uri |-> uriA, category |-> "Jeans", color |-> "blue"],
      [uri |-> uriB, category |-> "T-shirt", color |-> "red"],
      [uri |-> uriC, category |-> "Dress", color |-> "black"],
      [uri |-> uriB, category |-> "Shoes", color |-> "Navy"],
      [uri |-> uriC, category |-> "Hat", color |-> "teal"],
      [uri |-> uriA, category |-> "Other", color |-> "constructor"]>>

RECURSIVE SubCatalogue(_, _)
\* the items of the catalogue at the positions in S, from position i on
SubCatalogue(S, i) ==
    IF i > Len(Catalogue) THEN <<>>
    ELSE IF i \in S THEN <<Catalogue[i]>> \o SubCatalogue(S, i + 1)
    ELSE SubCatalogue(S, i + 1)

Wardrobes ==
    {SubCatalogue(S, 1) : S \in {T \in SUBSET (1..Len(Catalogue)) :
                                     Cardinality(T) <= MaxWardrobe}}

\* the wardrobes of the screen: the Jeans, with or without the T-shirt and the Hat
ScreenWardrobes == {SubCatalogue({2} \cup S, 1) : S \in SUBSET {3, 6}}

OccasionArgs == {Undefined, "Casual", "Formal", "Athletic", "Business"}
WeatherArgs == {Undefined, "Hot", "Mild", "Cold", "Rainy"}
RequiredArgs == {<<>>, <<"Hat">>}
ToggleArgs == {"Hat"}

----------------------------------------------------------------------------
(* App: the wardrobe is loaded from AsyncStorage by one effect and saved   *)
(* by another (src/unnamed/part_000).  A request to the store is issued by  *)
(* a call, served by the store at some later moment (a read takes its       *)
(* result, a write replaces the text), and settled when the awaiting code   *)
(* resumes.  The source does not order two requests in flight; the store    *)
(* may serve them in any order.                                             *)

\* JSON.stringify of a wardrobe: a text, kept as the one-element sequence of
\* the value it denotes (<<>> is null: no text under the key)
JSONStringify(value) == <<value>>

\* JSON.parse of a text written by JSON.stringify
JSONParse(text) == text[1]

GetItem == [op |-> "getItem", value |-> <<>>, served |-> FALSE, result |-> <<>>]

SetItem(text) == [op |-> "setItem", value |-> text, served |-> FALSE, result |-> <<>>]

\* requests without the one at position i
Settled(i) == SubSeq(requests, 1, i - 1) \o SubSeq(requests, i + 1, Len(requests))

\* the load effect: loadClothing() runs up to its await
LoadClothing ==
    /\ effects # <<>>
    /\ Head(effects) = "loadClothing"
    /\ requests' = Append(requests, GetItem)
    /\ effects' = Tail(effects)
    /\ UNCHANGED <<serviceVars, screenVars, feedbackMap, thisVars, seededVars,
                   methodVars, storage, history, creatorVars>>

\* the save effect: saveClothing() runs up to its await, with the wardrobe
\* of the render the effect belongs to
SaveClothing ==
    /\ effects # <<>>
    /\ Head(effects) = "saveClothing"
    /\ requests' = Append(requests, SetItem(JSONStringify(clothingItems)))
    /\ effects' = Tail(effects)
    /\ UNCHANGED <<serviceVars, screenVars, feedbackMap, thisVars, seededVars,
                   methodVars, storage, history, creatorVars>>

\* the store serves request i
Serve(i) ==
    /\ ~requests[i].served
    /\ requests' = [requests EXCEPT ![i].served = TRUE,
                                    ![i].result = IF requests[i].op = "getItem"
                                                  THEN storage ELSE <<>>]
    /\ storage' = IF requests[i].op = "setItem" THEN requests[i].value ELSE storage
    /\ history' = [history EXCEPT !.servedInOrder =
                       @ /\ \A j \in 1..(i - 1) : requests[j].served]
    /\ UNCHANGED <<serviceVars, screenVars, feedbackMap, thisVars, seededVars,
                   methodVars, effects, creatorVars>>

\* loadClothing resumes after its await: if (saved) setClothingItems(
\* JSON.parse(saved)); the new array makes the save effect run after the
\* render.  The effects of one commit run in one flush, so no awaiting code
\* resumes while effects are pending.
GetItemResolves(i) ==
    /\ effects = <<>>
    /\ requests[i].op = "getItem"
    /\ requests[i].served
    /\ IF requests[i].result # <<>>
       THEN /\ clothingItems' = JSONParse(requests[i].result)
            /\ effects' = <<"saveClothing">>
       ELSE UNCHANGED <<clothingItems, effects>>
    /\ requests' = Settled(i)
    /\ UNCHANGED <<numRecommendations, occasion, weather, requiredCategories,
                   filteredItems, recommendations, seen, attempts, result, pc,
                   screenVars, feedbackMap, thisVars, seededVars, methodVars,
                   storage, history, creatorVars>>

\* saveClothing resumes after its await and ends
SetItemResolves(i) ==
    /\ effects = <<>>
    /\ requests[i].op = "setItem"
    /\ requests[i].served
    /\ requests' = Settled(i)
    /\ UNCHANGED <<serviceVars, screenVars, feedbackMap, thisVars, seededVars,
                   methodVars, storage, effects, history, creatorVars>>

\* the store and the effects at rest (for the specifications that leave the
\* store out)
AppAtRest ==
    /\ storage = <<>>
    /\ requests = <<>>
    /\ effects = <<>>
    /\ history = [startedWith |-> <<>>, servedInOrder |-> TRUE]

----------------------------------------------------------------------------
(* OutfitCreatorScreen: the sections of the outfit being built              *)
(* (src/unnamed/part_003)                                                   *)

CATEGORY_OPTIONS ==
    <<"T-shirt", "Shirt", "Jeans", "Sweatpants", "Shorts", "Jacket", "Dress",
      "Skirt", "Shoes", "Hat", "Other">>

MAX_SECTIONS == 4

InitialSections ==
    <<[category |-> "T-shirt", index |-> 0],
      [category |-> "Jeans", index |-> 0],
      [category |-> "Shoes", index |-> 0]>>

\* clothingItems.filter(item => item.category === category)
ItemsOfCategory(category) == SelectSeq(clothingItems, LAMBDA item : item.category = category)

\* addSection: a section of the first category, while fewer than MAX_SECTIONS
AddSection ==
    /\ sections' = IF Len(sections) < MAX_SECTIONS
                   THEN Append(sections, [category |-> CATEGORY_OPTIONS[1], index |-> 0])
                   ELSE sections
    /\ UNCHANGED <<serviceVars, screenVars, feedbackMap, thisVars, seededVars,
                   methodVars, appVars>>

\* faulty variant: the last section can be removed too
RemoveSectionUnguarded(idx) ==
    /\ idx \in 0..(Len(sections) - 1)
    /\ sections' = SubSeq(sections, 1, idx) \o SubSeq(sections, idx + 2, Len(sections))
    /\ UNCHANGED <<serviceVars, screenVars, feedbackMap, thisVars, seededVars,
                   methodVars, appVars>>

\* removeSection(idx), idx being the position of a section on display:
\* sections.filter((_, i) => i !== idx), while more than one section is left
RemoveSection(idx) ==
    /\ idx \in 0..(Len(sections) - 1)
    /\ sections' = IF Len(sections) > 1
                   THEN SubSeq(sections, 1, idx)
                        \o SubSeq(sections, idx + 2, Len(sections))
                   ELSE sections
    /\ UNCHANGED <<serviceVars, screenVars, feedbackMap, thisVars, seededVars,
                   methodVars, appVars>>

\* updateSectionCategory(idx, category): newSections[idx] = { category, index: 0 }
UpdateSectionCategory(idx, category) ==
    /\ idx \in 0..(Len(sections) - 1)
    /\ sections' = [sections EXCEPT ![idx + 1] = [category |-> category, index |-> 0]]
    /\ UNCHANGED <<serviceVars, screenVars, feedbackMap, thisVars, seededVars,
                   methodVars, appVars>>

\* updateSectionIndex(idx, direction): the arrows of a section, wrapping
\* around the items of its category; nothing happens without such items
UpdateSectionIndex(idx, direction) ==
    /\ idx \in 0..(Len(sections) - 1)
    /\ LET items == ItemsOfCategory(sections[idx + 1].category)
           currentIndex == Min(sections[idx + 1].index, Len(items) - 1)
       IN  sections' = IF Len(items) = 0 THEN sections
                       ELSE [sections EXCEPT ![idx + 1].index =
                                (currentIndex + direction + Len(items)) % Len(items)]
    /\ UNCHANGED <<serviceVars, screenVars, feedbackMap, thisVars, seededVars,
                   methodVars, appVars>>

\* the state before a call of the service, for the wardrobes in W
InitWith(W) ==
    /\ clothingItems \in W
    /\ numRecommendations = 0
    /\ occasion = Undefined
    /\ weather = Undefined
    /\ requiredCategories = <<>>
    /\ filteredItems = <<>>
    /\ recommendations = <<>>
    /\ seen = {}
    /\ attempts = 0
    /\ result = <<>>
    /\ pc = "idle"
    /\ selectedOccasion = "All"
    /\ selectedWeather = "Any"
    /\ screenRequiredCategories = <<>>
    /\ screenRecommendations = <<>>
    /\ userEvents = 0
    /\ feedbackMap = <<>>
    /\ colorCompatibilityMatrix = InitializeColorCompatibilityMatrix
    /\ outfitRatings = <<>>
    /\ stylePreferences = <<>>
    /\ drawn = 0
    /\ calls = <<>>
    /\ sections = InitialSections

\* the service alone: the screen is not mounted
Init ==
    /\ InitWith(Wardrobes)
    /\ isLoading = FALSE
    /\ timers = <<>>
    /\ seed = <<>>
    /\ argument = <<>>
    /\ returned = <<>>
    /\ AppAtRest

Next ==
    \/ \E n \in 1..MaxN, occ \in OccasionArgs, w \in WeatherArgs,
          required \in RequiredArgs : Call(n, occ, w, required)
    \/ LoopIteration
    \/ Return

Spec == Init /\ [][Next]_vars

\* the screen after its mount: the effect has called generateRecommendations
ScreenInit ==
    /\ InitWith(ScreenWardrobes)
    /\ isLoading = (Len(clothingItems) >= 2)
    /\ timers = IF Len(clothingItems) >= 2
                THEN <<Closure("All", "Any", <<>>)>>
                ELSE <<>>
    /\ seed = <<>>
    /\ argument = <<>>
    /\ returned = <<>>
    /\ AppAtRest

ScreenNext ==
    \/ \E i \in 1..Len(OCCASION_OPTIONS) : SetSelectedOccasion(OCCASION_OPTIONS[i])
    \/ \E i \in 1..Len(WEATHER_OPTIONS) : SetSelectedWeather(WEATHER_OPTIONS[i])
    \/ Refresh
    \/ \E cat \in ToggleArgs : ToggleCategory(cat)
    \/ TimerFires

ScreenSpec == ScreenInit /\ [][ScreenNext]_vars

----------------------------------------------------------------------------
(* The service called with a second dress, a second hat, repeated required *)
(* categories and occasion and weather strings that are in no table        *)

uriD == <<100>>
uriE == <<101>>

EdgeCatalogue ==
    Catalogue \o <<[uri |-> uriD, category |-> "Dress", color |-> "Red"],
                   [uri |-> uriE, category |-> "Hat", color |-> "black"]>>

\* wardrobes, as the positions of their items in EdgeCatalogue
EdgeWardrobeShapes ==
    {<<>>, <<6>>, <<3, 2>>, <<8, 3, 4>>, <<2, 4, 6>>, <<3, 2, 6, 9>>, <<1, 5>>}

EdgeWardrobes ==
    {[i \in 1..Len(shape) |-> EdgeCatalogue[shape[i]]] : shape \in EdgeWardrobeShapes}

EdgeOccasionArgs == {Undefined, "Party", "constructor"}
EdgeWeatherArgs == {Undefined, "Cold", "toString"}
EdgeRequiredArgs == {<<>>, <<"Hat", "Hat">>, <<"Jeans">>, <<"Dress">>, <<"Hat", "Jeans">>}

EdgeInit ==
    /\ InitWith(EdgeWardrobes)
    /\ isLoading = FALSE
    /\ timers = <<>>
    /\ seed = <<>>
    /\ argument = <<>>
    /\ returned = <<>>
    /\ AppAtRest

EdgeNext ==
    \/ \E n \in 1..MaxN, occ \in EdgeOccasionArgs, w \in EdgeWeatherArgs,
          required \in EdgeRequiredArgs : Call(n, occ, w, required)
    \/ \E n \in 1..MaxN, occ \in EdgeOccasionArgs, w \in EdgeWeatherArgs,
          required \in EdgeRequiredArgs : CallThrows(n, occ, w, required)
    \/ LoopIteration
    \/ Return

EdgeSpec == EdgeInit /\ [][EdgeNext]_vars

----------------------------------------------------------------------------
(* Repeated calls of the service with a seeded Math.random(), and feedback  *)
(* recorded between them: the later calls repeat the arguments of the first *)

\* the seeded sources, each repeated for ever
Seeds == {<<9, 0, 5>>, <<0, 5, 9>>, <<0, 9>>, <<5>>}

\* [T-shirt, Jeans, Shoes] and [Shirt, Jeans, T-shirt]
ReplayWardrobes == {SubCatalogue({2, 3, 5}, 1), SubCatalogue({1, 2, 3}, 1)}

ReplayWeatherArgs == {Undefined, "Cold"}
RatingArgs == {5}
NowValues == {1000}
PreferenceArgs == {<<"Jeans", 1>>}

ReplayInit ==
    /\ InitWith(ReplayWardrobes)
    /\ isLoading = FALSE
    /\ timers = <<>>
    /\ seed \in Seeds
    /\ argument = <<>>
    /\ returned = <<>>
    /\ AppAtRest

ReplayNext ==
    \/ \E n \in 1..MaxN, w \in ReplayWeatherArgs :
          /\ Len(calls) < MaxCalls
          /\ calls # <<>> => (n = calls[1].numRecommendations /\ w = calls[1].weather)
          /\ Call(n, Undefined, w, <<>>)
    \/ SeededLoopIteration
    \/ Return
    \/ SetRecommendations
    \/ \E i \in 1..Len(screenRecommendations), rating \in RatingArgs, now \in NowValues :
          RateOutfit(OutfitKey(screenRecommendations[i].items), rating, now)
    \/ \E a \in PreferenceArgs : UpdateStylePreferences(a[1], a[2])
    \/ \E i \in 1..Len(screenRecommendations) : HandleLike(i)
    \/ \E i \in 1..Len(screenRecommendations) : HandleDislike(i)

ReplaySpec == ReplayInit /\ [][ReplayNext]_vars

----------------------------------------------------------------------------
(* The scoring methods applied alone, to item lists that need not be        *)
(* outfits: any order, repeated items, and category and color strings that  *)
(* name members of Object.prototype                                         *)

MethodCatalogue ==
    <<Catalogue[3], Catalogue[2], Catalogue[4],
      [uri |-> uriD, category |-> "Shorts", color |-> "Beige"],
      [uri |-> uriE, category |-> "Skirt", color |-> "Purple"],
      [uri |-> uriA, category |-> "constructor", color |-> "__proto__"],
      [uri |-> uriB, category |-> "__proto__", color |-> "teal"],
      Catalogue[1],
      [uri |-> uriC, category |-> "Sweatpants", color |-> "Grey"]>>

\* every list of up to MaxItems items of the catalogue
MethodInputs ==
    UNION {[1..n -> {MethodCatalogue[k] : k \in 1..Len(MethodCatalogue)}] :
               n \in 0..MaxItems}

\* calculateOutfitScore(argument)
ApplyCalculateOutfitScore ==
    /\ pc = "idle"
    /\ returned' = [method |-> "calculateOutfitScore",
                    value |-> CalculateOutfitScore(argument)]
    /\ pc' = "done"
    /\ UNCHANGED <<clothingItems, numRecommendations, occasion, weather,
                   requiredCategories, filteredItems, recommendations, seen,
                   attempts, result, screenVars, feedbackMap, thisVars,
                   seededVars, argument, otherVars>>

\* calculateColorCompatibility and calculateStyleCompatibility, applied to
\* the two items of argument
ApplyCompatibility ==
    /\ pc = "idle"
    /\ Len(argument) = 2
    /\ returned' = [method |-> "compatibility",
                    value |-> [color |-> CalculateColorCompatibility(argument[1],
                                                                     argument[2]),
                               style |-> CalculateStyleCompatibility(argument[1],
                                                                     argument[2])]]
    /\ pc' = "done"
    /\ UNCHANGED <<clothingItems, numRecommendations, occasion, weather,
                   requiredCategories, filteredItems, recommendations, seen,
                   attempts, result, screenVars, feedbackMap, thisVars,
                   seededVars, argument, otherVars>>

\* calculateStyleCompatibility, applied to the two items of argument in both
\* orders
ApplyCalculateStyleCompatibility ==
    /\ pc = "idle"
    /\ Len(argument) = 2
    /\ returned' = [method |-> "calculateStyleCompatibility",
                    value |-> [forward |-> CalculateStyleCompatibility(argument[1],
                                                                       argument[2]),
                               backward |-> CalculateStyleCompatibility(argument[2],
                                                                        argument[1])]]
    /\ pc' = "done"
    /\ UNCHANGED <<clothingItems, numRecommendations, occasion, weather,
                   requiredCategories, filteredItems, recommendations, seen,
                   attempts, result, screenVars, feedbackMap, thisVars,
                   seededVars, argument, otherVars>>

\* classifyOutfitStyle(argument)
ApplyClassifyOutfitStyle ==
    /\ pc = "idle"
    /\ returned' = [method |-> "classifyOutfitStyle",
                    value |-> ClassifyOutfitStyle(argument)]
    /\ pc' = "done"
    /\ UNCHANGED <<clothingItems, numRecommendations, occasion, weather,
                   requiredCategories, filteredItems, recommendations, seen,
                   attempts, result, screenVars, feedbackMap, thisVars,
                   seededVars, argument, otherVars>>

MethodInit ==
    /\ InitWith({<<>>})
    /\ isLoading = FALSE
    /\ timers = <<>>
    /\ seed = <<>>
    /\ argument \in MethodInputs
    /\ returned = <<>>
    /\ AppAtRest

MethodNext ==
    \/ ApplyCalculateOutfitScore
    \/ ApplyCompatibility
    \/ ApplyCalculateStyleCompatibility
    \/ ApplyClassifyOutfitStyle

MethodSpec == MethodInit /\ [][MethodNext]_vars

----------------------------------------------------------------------------
(* The color methods applied alone, to two items whose colors are any two   *)
(* of the strings below: the color of an item is free text the user types   *)

ColorStrings ==
    {"red", "Red", "RED", "blue", "Blue", "green", "yellow", "purple", "Purple",
     "orange", "pink", "brown", "black", "white", "White", "gray", "grey",
     "Grey", "navy", "Navy", "NAVY", "beige", "Beige", "tan", "cream", "Cream",
     "dark blue", "teal", "Teal", "constructor", "__proto__"}

ColorInputs ==
    {<<[uri |-> uriA, category |-> "Shirt", color |-> c1],
       [uri |-> uriB, category |-> "Jeans", color |-> c2]>> :
         c1 \in ColorStrings, c2 \in ColorStrings}

\* extractColorFromItem, applied to each of the two items of argument
ApplyExtractColorFromItem ==
    /\ pc = "idle"
    /\ returned' = [method |-> "extractColorFromItem",
                    value |-> [first |-> ExtractColorFromItem(argument[1]),
                               second |-> ExtractColorFromItem(argument[2])]]
    /\ pc' = "done"
    /\ UNCHANGED <<clothingItems, numRecommendations, occasion, weather,
                   requiredCategories, filteredItems, recommendations, seen,
                   attempts, result, screenVars, feedbackMap, thisVars,
                   seededVars, argument, otherVars>>

\* calculateColorCompatibility, applied to the two items of argument in both
\* orders; color1 and color2 are its locals in the first order
ApplyCalculateColorCompatibility ==
    /\ pc = "idle"
    /\ returned' = [method |-> "calculateColorCompatibility",
                    value |-> [color1 |-> ExtractColorFromItem(argument[1]),
                               color2 |-> ExtractColorFromItem(argument[2]),
                               forward |-> CalculateColorCompatibility(argument[1],
                                                                       argument[2]),
                               backward |-> CalculateColorCompatibility(argument[2],
                                                                        argument[1])]]
    /\ pc' = "done"
    /\ UNCHANGED <<clothingItems, numRecommendations, occasion, weather,
                   requiredCategories, filteredItems, recommendations, seen,
                   attempts, result, screenVars, feedbackMap, thisVars,
                   seededVars, argument, otherVars>>

ColorInit ==
    /\ InitWith({<<>>})
    /\ isLoading = FALSE
    /\ timers = <<>>
    /\ seed = <<>>
    /\ argument \in ColorInputs
    /\ returned = <<>>
    /\ AppAtRest

ColorNext ==
    \/ ApplyExtractColorFromItem
    \/ ApplyCalculateColorCompatibility

ColorSpec == ColorInit /\ [][ColorNext]_vars

----------------------------------------------------------------------------
(* App startup: the first render has the empty wardrobe and both effects   *)
(* are about to run; the store holds nothing or the text of a wardrobe     *)

StorageWardrobes == {SubCatalogue(S, 1) : S \in SUBSET {1, 2, 3}}

StoredAtStart == {<<>>} \cup {JSONStringify(W) : W \in StorageWardrobes}

StorageInit ==
    /\ InitWith({<<>>})
    /\ isLoading = FALSE
    /\ timers = <<>>
    /\ seed = <<>>
    /\ argument = <<>>
    /\ returned = <<>>
    /\ storage \in StoredAtStart
    /\ requests = <<>>
    /\ effects = <<"loadClothing", "saveClothing">>
    /\ history = [startedWith |-> storage, servedInOrder |-> TRUE]

StorageNext ==
    \/ LoadClothing
    \/ SaveClothing
    \/ \E i \in 1..Len(requests) : Serve(i)
    \/ \E i \in 1..Len(requests) : GetItemResolves(i)
    \/ \E i \in 1..Len(requests) : SetItemResolves(i)

StorageSpec == StorageInit /\ [][StorageNext]_vars

----------------------------------------------------------------------------
(* The outfit creator, from its first render, on the empty wardrobe and on  *)
(* one with two T-shirts (so that the arrows have something to cycle)       *)

CreatorWardrobes ==
    {<<>>,
     <<Catalogue[3], Catalogue[2],
       [uri |-> uriD, category |-> "T-shirt", color |-> "White"]>>}

\* the categories picked in a section's picker
CreatorCategoryArgs == {"Jeans", "Dress"}

CreatorInit ==
    /\ InitWith(CreatorWardrobes)
    /\ isLoading = FALSE
    /\ timers = <<>>
    /\ seed = <<>>
    /\ argument = <<>>
    /\ returned = <<>>
    /\ AppAtRest

CreatorNext ==
    \/ AddSection
    \/ \E idx \in 0..(MAX_SECTIONS - 1) : RemoveSection(idx)
    \/ \E idx \in 0..(MAX_SECTIONS - 1), category \in CreatorCategoryArgs :
           UpdateSectionCategory(idx, category)
    \/ \E idx \in 0..(MAX_SECTIONS - 1), direction \in {-1, 1} :
           UpdateSectionIndex(idx, direction)

CreatorSpec == CreatorInit /\ [][CreatorNext]_vars

----------------------------------------------------------------------------
(* Calls on wardrobes chosen for the extremes of the score and for the      *)
(* categories no filter allows: a top and a bottom of one color; a dress    *)
(* with shorts of a clashing color; an item whose category names a member   *)
(* of Object.prototype; and a wardrobe with Hat, Jacket, Hoodie and Other   *)

WideWardrobes ==
    {<<[uri |-> uriA, category |-> "T-shirt", color |-> "red"],
       [uri |-> uriB, category |-> "Jeans", color |-> "Red"]>>,
     <<[uri |-> uriC, category |-> "Dress", color |-> "red"],
       [uri |-> uriD, category |-> "Shorts", color |-> "orange"]>>,
     <<[uri |-> uriA, category |-> "T-shirt", color |-> "red"],
       [uri |-> uriB, category |-> "Jeans", color |-> "blue"],
       [uri |-> uriC, category |-> "constructor", color |-> "black"]>>,
     <<[uri |-> uriA, category |-> "T-shirt", color |-> "red"],
       [uri |-> uriB, category |-> "Jeans", color |-> "blue"],
       [uri |-> uriE, category |-> "Hat", color |-> "teal"],
       [uri |-> uriC, category |-> "Jacket", color |-> "black"],
       [uri |-> uriD, category |-> "Hoodie", color |-> "Grey"],
       [uri |-> uriAbarB, category |-> "Other", color |-> "White"]>>}

WideRequiredArgs ==
    {<<>>, <<"Shorts">>, <<"constructor">>, <<"Hat", "Jacket">>, <<"Other", "Hoodie">>}

WideInit ==
    /\ InitWith(WideWardrobes)
    /\ isLoading = FALSE
    /\ timers = <<>>
    /\ seed = <<>>
    /\ argument = <<>>
    /\ returned = <<>>
    /\ AppAtRest

WideNext ==
    \/ \E n \in 1..MaxN, occ \in OccasionArgs, w \in WeatherArgs,
          required \in WideRequiredArgs : Call(n, occ, w, required)
    \/ LoopIteration
    \/ Return

WideSpec == WideInit /\ [][WideNext]_vars

----------------------------------------------------------------------------
(* Properties of generateOutfitRecommendations *)

Categories(items) == {items[i].category : i \in 1..Len(items)}

NoFilters == occasion = Undefined /\ weather = Undefined

\* every candidate the generator can produce from the current pool
Candidates ==
    GenerateSingleOutfitWithRequired(filteredItems, outfitTemplate, requiredCategories)

\* C1: no two recommendations of the returned list (nor of the list being
\* collected) have the same deduplication key, the sorted uris joined by '|'.
C1_UniqueKeys ==
    /\ \A i, j \in 1..Len(result) :
           i # j => OutfitKey(result[i].items) # OutfitKey(result[j].items)
    /\ \A i, j \in 1..Len(recommendations) :
           i # j => OutfitKey(recommendations[i].items)
                        # OutfitKey(recommendations[j].items)

\* a call that returned two outfits and spent an attempt on a duplicate (no
\* candidate of this pool is too small, so the extra attempt was a duplicate)
C1_Witness ==
    /\ pc = "done"
    /\ Len(result) >= 2
    /\ attempts > Len(result)
    /\ \A items \in Candidates : ~TooSmall(items)

\* C2: the call returns at most numRecommendations recommendations.
C2_AtMostN ==
    /\ Len(recommendations) <= numRecommendations
    /\ Len(result) <= numRecommendations

\* a call for two outfits that returned exactly two
C2_Witness ==
    /\ pc = "done"
    /\ numRecommendations >= 2
    /\ Len(result) = numRecommendations

\* C3: every iteration of the loop adds exactly one to the attempt counter and
\* runs only while fewer than n outfits are collected and fewer than n*10
\* attempts are made; the counter never exceeds n*10, so the loop ends within
\* n*10 iterations; it has ended with n outfits or with the budget used up.
C3_LoopTerminates ==
    /\ [][(pc = "loop" /\ pc' = "loop")
            => /\ attempts' = attempts + 1
               /\ Len(recommendations) < numRecommendations
               /\ attempts < numRecommendations * 10]_vars
    /\ [](attempts <= numRecommendations * 10)
    /\ [](pc = "done" => \/ Len(result) = numRecommendations
                         \/ attempts = numRecommendations * 10)

\* a call that used its whole budget: some attempts were accepted, the others
\* discarded or skipped, and fewer than n outfits are returned
C3_Witness ==
    /\ pc = "done"
    /\ attempts = numRecommendations * 10
    /\ Len(result) >= 1
    /\ Len(result) < numRecommendations

\* C4: the returned list is ordered by score, highest first.
C4_SortedDescending ==
    \A i \in 1..(Len(result) - 1) : ~ScoreLess(result[i].score, result[i + 1].score)

\* a call whose outfits were generated in another order than the returned one
C4_Witness ==
    /\ pc = "done"
    /\ Len(result) >= 2
    /\ result # recommendations
    /\ ScoreLess(result[Len(result)].score, result[1].score)

\* C5: every returned recommendation contains a top-layer and a bottom-layer
\* item, or a Dress.
C5_TopAndBottomOrDress ==
    \A i \in 1..Len(result) :
        LET cats == Categories(result[i].items)
        IN  \/ "Dress" \in cats
            \/ /\ cats \cap {"T-shirt", "Shirt", "Dress", "Hoodie", "Jacket"} # {}
               /\ cats \cap {"Jeans", "Sweatpants", "Shorts", "Skirt"} # {}

\* C6: for a wardrobe of a single Dress, called without filters or required
\* categories, the call returns outfits, each the dress alone, styled Elegant.
C6_DressOnlyReturned ==
    (/\ pc = "done"
     /\ Len(clothingItems) = 1
     /\ clothingItems[1].category = "Dress"
     /\ NoFilters
     /\ requiredCategories = <<>>)
    => /\ result # <<>>
       /\ \A i \in 1..Len(result) :
              /\ result[i].items = clothingItems
              /\ result[i].style = "Elegant"

IsTop(item) == item.category \in {"T-shirt", "Shirt", "Hoodie", "Jacket"}
IsBottom(item) == item.category \in {"Jeans", "Sweatpants", "Shorts", "Skirt"}

\* C8: for a wardrobe of exactly one non-Dress top t and one bottom b, called
\* without filters or required categories, the call returns exactly one
\* recommendation, of items [t, b] in that order and of score
\* (colorCompatibility(t,b) + styleCompatibility(t,b))/2; for a red T-shirt and
\* blue Jeans the score is 0.8 (16 twentieths) and the style Casual.
C8_SingleTopAndBottom ==
    (/\ pc = "done"
     /\ NoFilters
     /\ requiredCategories = <<>>
     /\ Len(clothingItems) = 2
     /\ \E i, j \in 1..2 : IsTop(clothingItems[i]) /\ IsBottom(clothingItems[j]))
    => LET t == clothingItems[CHOOSE i \in 1..2 : IsTop(clothingItems[i])]
           b == clothingItems[CHOOSE j \in 1..2 : IsBottom(clothingItems[j])]
       IN  /\ Len(result) = 1
           /\ result[1].items = <<t, b>>
           /\ result[1].score.num
                  = (CalculateColorCompatibility(t, b)
                     + CalculateStyleCompatibility(t, b).tenths) * result[1].score.den
           /\ (/\ t.category = "T-shirt" /\ ToLowerCase(t.color) = "red"
               /\ b.category = "Jeans" /\ ToLowerCase(b.color) = "blue")
              => /\ result[1].score.num = 16 * result[1].score.den
                 /\ result[1].style = "Casual"

\* the wardrobe [blue Jeans, red T-shirt], called for two outfits: one is
\* returned, after the whole attempt budget
C8_Witness ==
    /\ pc = "done"
    /\ NoFilters
    /\ requiredCategories = <<>>
    /\ numRecommendations >= 2
    /\ Len(clothingItems) = 2
    /\ clothingItems[1].category = "Jeans"
    /\ clothingItems[2].category = "T-shirt"
    /\ Len(result) = 1
    /\ attempts = numRecommendations * 10

C10_AllAnyUnfiltered ==
    [][(/\ timers # <<>>
        /\ timers' = Tail(timers)
        /\ Head(timers).selectedOccasion = "All"
        /\ Head(timers).selectedWeather = "Any")
       => /\ occasion' = Undefined
          /\ weather' = Undefined
          /\ filteredItems' = clothingItems]_vars

\* the screen shows outfits generated for 'All' and 'Any' from the whole
\* wardrobe, after the user picked another occasion and came back to 'All'
C10_Witness ==
    /\ timers = <<>>
    /\ userEvents >= 2
    /\ selectedOccasion = "All"
    /\ selectedWeather = "Any"
    /\ ~isLoading
    /\ screenRecommendations # <<>>
    /\ filteredItems = clothingItems
    /\ Len(clothingItems) >= 2

\* C11: a call never ends with an exception, whatever the occasion and weather
\* strings, and when the filters leave fewer than 2 items it returns the empty
\* list.
C11_NeverFails ==
    /\ pc # "threw"
    /\ (pc = "done" /\ Len(filteredItems) < 2) => result = <<>>

\* the part of C11 that the code keeps: a call whose filters left fewer than 2
\* items and did not throw returns the empty list
C11_SmallPoolEmptyList ==
    (pc = "done" /\ Len(filteredItems) < 2) => result = <<>>

\* the wardrobe [T-shirt, Jeans] called with weather 'Cold': the pool is the
\* Jeans alone and the call has returned
C11_Witness ==
    /\ pc = "done"
    /\ weather = "Cold"
    /\ Len(clothingItems) = 2
    /\ Len(filteredItems) = 1
    /\ result = <<>>

\* the outfits a property of the candidates speaks about: every candidate the
\* generator can return from the current pool, and every outfit collected
Generated == Candidates \cup {recommendations[i].items : i \in 1..Len(recommendations)}

\* C12: every candidate contains an item of every required category that has
\* an item in the filtered pool.
C12_RequiredIncluded ==
    \A items \in Generated : \A k \in 1..Len(requiredCategories) :
        requiredCategories[k] \in Categories(filteredItems)
            => requiredCategories[k] \in Categories(items)

\* a call with the required categories Hat and Jeans that returned two outfits:
\* the Jeans came as the base, the Hat from the required-category step, and
\* the two outfits differ by the hat picked
C12_Witness ==
    /\ pc = "done"
    /\ requiredCategories = <<"Hat", "Jeans">>
    /\ Len(result) = 2
    /\ \A i \in 1..2 : {"Hat", "Jeans"} \subseteq Categories(result[i].items)
    /\ \E k \in 1..Len(result[1].items) :
           /\ result[1].items[k].category = "Hat"
           /\ \A j \in 1..Len(result[2].items) : result[2].items[j] # result[1].items[k]

\* C13: every Dress of the filtered pool is the base (first item) of some
\* candidate the generator can return.
C13_EveryDressCanBeBase ==
    \A k \in 1..Len(filteredItems) :
        filteredItems[k].category = "Dress"
            => \E items \in Candidates : items # <<>> /\ items[1] = filteredItems[k]

\* C14: when the filtered pool has a Dress, every candidate starts with a
\* dress, and each of its tops and bottoms is of a required category.
C14_DressSkipsSeparates ==
    "Dress" \in Categories(filteredItems)
    => \A items \in Generated :
           /\ items # <<>>
           /\ items[1].category = "Dress"
           /\ \A k \in 1..Len(items) :
                  (IsTop(items[k]) \/ IsBottom(items[k]))
                      => Includes(requiredCategories, items[k].category)

\* a call on a wardrobe with a Dress and Jeans and the required category Jeans
\* that returned an outfit [dress, jeans, ...]
C14_Witness ==
    /\ pc = "done"
    /\ requiredCategories = <<"Jeans">>
    /\ result # <<>>
    /\ Len(result[1].items) >= 2
    /\ result[1].items[1].category = "Dress"
    /\ result[1].items[2].category = "Jeans"

\* C15: no candidate has two items of the same category, and so none has the
\* same item twice; this includes Shoes, Hat and Other.
C15_OneItemPerCategory ==
    \A items \in Generated : \A i, j \in 1..Len(items) :
        i # j => /\ items[i].category # items[j].category
                 /\ items[i] # items[j]

\* a call with the required categories [Hat, Hat] on a wardrobe of two hats
\* that returned an outfit: it has one hat
C15_Witness ==
    /\ pc = "done"
    /\ requiredCategories = <<"Hat", "Hat">>
    /\ Cardinality({k \in 1..Len(filteredItems) : filteredItems[k].category = "Hat"}) = 2
    /\ result # <<>>
    /\ Cardinality({k \in 1..Len(result[1].items) :
                        result[1].items[k].category = "Hat"}) = 1

\* two remembered calls had the same arguments (and, the source being rewound
\* after every call, the same random draws)
SameInputs(a, b) ==
    /\ a.clothingItems = b.clothingItems
    /\ a.numRecommendations = b.numRecommendations
    /\ a.occasion = b.occasion
    /\ a.weather = b.weather
    /\ a.requiredCategories = b.requiredCategories

\* two remembered calls ran with different recorded feedback
FeedbackDiffers(a, b) ==
    \/ a.outfitRatings # b.outfitRatings
    \/ a.stylePreferences # b.stylePreferences
    \/ a.feedbackMap # b.feedbackMap

C17_CallLeavesSharedState ==
    [][(pc = "loop" \/ (pc = "idle" /\ pc' # "idle"))
         => UNCHANGED <<colorCompatibilityMatrix, outfitRatings, stylePreferences,
                        clothingItems>>]_vars

\* a second call, with a weather filter that removes items from the pool, has
\* returned outfits after a rating and a style preference were recorded
C17_Witness ==
    /\ pc = "done"
    /\ Len(calls) >= 1
    /\ Truthy(weather)
    /\ Len(filteredItems) < Len(clothingItems)
    /\ result # <<>>
    /\ outfitRatings # <<>>
    /\ DOMAIN stylePreferences # {}

\* C18: two calls with the same arguments and the same sequence of random
\* draws return the same list: the same outfits with the same items in the
\* same order, scores, styles and reasons, in the same list order.
C18_Deterministic ==
    \A i, j \in 1..Len(calls) :
        SameInputs(calls[i], calls[j]) => calls[i].result = calls[j].result

\* the same call was made twice with the same draws; it returned two outfits,
\* after an attempt that was discarded as a duplicate, and the sort changed
\* the order in which they were generated
C18_Witness ==
    /\ Len(calls) = 2
    /\ SameInputs(calls[1], calls[2])
    /\ Len(calls[2].result) = 2
    /\ calls[2].result = calls[1].result
    /\ attempts > 2
    /\ result # recommendations

----------------------------------------------------------------------------
(* Properties of the scoring methods *)

\* the index pairs i < j of a list of n items
IndexPairs(n) == {p \in (1..n) \X (1..n) : p[1] < p[2]}

RECURSIVE SumOverPairs(_, _)
\* the sum, over the pairs in ps, of colorCompatibility + styleCompatibility
\* of the earlier and the later item (twice the pair's score, in tenths)
SumOverPairs(items, ps) ==
    IF ps = {} THEN 0
    ELSE LET p == CHOOSE q \in ps : TRUE
         IN  CalculateColorCompatibility(items[p[1]], items[p[2]])
             + CalculateStyleCompatibility(items[p[1]], items[p[2]]).tenths
             + SumOverPairs(items, ps \ {p})

\* C19: calculateOutfitScore returns 0 for fewer than 2 items, and otherwise
\* the mean over the index pairs i < j of (colorCompatibility(items[i],
\* items[j]) + styleCompatibility(items[i], items[j]))/2, the earlier item
\* first (the mean is NaN when one of the values is not a number).
C19_MeanOfPairScores ==
    (pc = "done" /\ returned.method = "calculateOutfitScore")
    => LET items == argument
           ps == IndexPairs(Len(items))
           score == returned.value
       IN  IF Len(items) < 2
           THEN score.num = 0 /\ ~score.nan
           ELSE /\ score.nan = (\E p \in ps :
                                   ~CalculateStyleCompatibility(items[p[1]],
                                                                items[p[2]]).number)
                /\ score.num * Cardinality(ps) = SumOverPairs(items, ps) * score.den

\* the score of [Shorts, Jeans, T-shirt]: the style table has a row for jeans
\* but none for shorts, so the order of the first two items matters
C19_Witness ==
    /\ pc = "done"
    /\ returned.method = "calculateOutfitScore"
    /\ Len(argument) = 3
    /\ argument[1].category = "Shorts"
    /\ argument[2].category = "Jeans"
    /\ argument[3].category = "T-shirt"
    /\ ~returned.value.nan
    /\ returned.value.den = 3
    /\ returned.value.num > 0

C20_RangeWhenNumber ==
    /\ (pc = "done" /\ returned.method = "compatibility")
       => /\ 5 <= returned.value.color /\ returned.value.color <= 10
          /\ returned.value.style.number
             => /\ 0 <= returned.value.style.tenths
                /\ returned.value.style.tenths <= 10
    /\ (pc = "done" /\ returned.method = "calculateOutfitScore"
           /\ ~returned.value.nan)
       => /\ 0 <= returned.value.num
          /\ returned.value.num <= 20 * returned.value.den

----------------------------------------------------------------------------
(* Properties of the color methods *)

ColorTokens == {colors[i] : i \in 1..Len(colors)}

\* C21: the matrix built at construction has the 11 color tokens as rows and
\* columns, is symmetric and has 1.0 (10 tenths) on its diagonal; hence
\* calculateColorCompatibility gives the same value for (a, b) and (b, a), and
\* 1.0 when the colors of a and b normalize to the same token.
C21_SymmetricUnitDiagonal ==
    /\ DOMAIN colorCompatibilityMatrix = ColorTokens
    /\ \A c1 \in ColorTokens :
           /\ DOMAIN colorCompatibilityMatrix[c1] = ColorTokens
           /\ colorCompatibilityMatrix[c1][c1] = 10
           /\ \A c2 \in ColorTokens :
                  colorCompatibilityMatrix[c1][c2] = colorCompatibilityMatrix[c2][c1]
    /\ (pc = "done" /\ returned.method = "calculateColorCompatibility")
       => /\ returned.value.forward = returned.value.backward
          /\ (returned.value.color1 \in ColorTokens
                 /\ returned.value.color1 = returned.value.color2)
             => returned.value.forward = 10

\* 'Navy' and 'blue' are different strings with the same token: the score is 1.0
C21_Witness ==
    /\ pc = "done"
    /\ returned.method = "calculateColorCompatibility"
    /\ argument[1].color = "Navy"
    /\ argument[2].color = "blue"
    /\ returned.value.color1 = "blue"
    /\ returned.value.forward = 10
    /\ returned.value.backward = 10

\* C22: extractColorFromItem returns one of the 11 tokens for every color
\* string; strings that differ only in letter case give the same token; navy,
\* beige, grey and cream give blue, brown, gray and white; and every string
\* that is not in the synonym table gives 'gray'.
C22_TotalCaseInsensitive ==
    (pc = "done" /\ returned.method = "extractColorFromItem")
    => LET lower1 == ToLowerCase(argument[1].color)
           lower2 == ToLowerCase(argument[2].color)
       IN  /\ returned.value.first \in ColorTokens
           /\ (lower1 = lower2) => returned.value.first = returned.value.second
           /\ (lower1 = "navy") => returned.value.first = "blue"
           /\ (lower1 = "beige") => returned.value.first = "brown"
           /\ (lower1 = "grey") => returned.value.first = "gray"
           /\ (lower1 = "cream") => returned.value.first = "white"
           /\ (lower1 \notin DOMAIN colorMapping) => returned.value.first = "gray"

\* the part of C22 that the code keeps: everything the claim says, for the
\* color strings that name no member of Object.prototype
C22_TokenUnlessInherited ==
    (pc = "done" /\ returned.method = "extractColorFromItem"
        /\ ToLowerCase(argument[1].color) \notin ObjectPrototypeKeys)
    => LET lower1 == ToLowerCase(argument[1].color)
           lower2 == ToLowerCase(argument[2].color)
       IN  /\ returned.value.first \in ColorTokens
           /\ (lower1 = lower2) => returned.value.first = returned.value.second
           /\ (lower1 = "navy") => returned.value.first = "blue"
           /\ (lower1 = "beige") => returned.value.first = "brown"
           /\ (lower1 = "grey") => returned.value.first = "gray"
           /\ (lower1 = "cream") => returned.value.first = "white"
           /\ (lower1 \notin DOMAIN colorMapping) => returned.value.first = "gray"

\* the color 'constructor' is in no table and the value returned for it is
\* not a token
C22_Witness ==
    /\ pc = "done"
    /\ returned.method = "extractColorFromItem"
    /\ argument[1].color = "constructor"
    /\ returned.value.first \notin ColorTokens

----------------------------------------------------------------------------
(* Properties of the style table *)

StyleCallOf(category1, category2) ==
    /\ pc = "done"
    /\ returned.method = "calculateStyleCompatibility"
    /\ argument[1].category = category1
    /\ argument[2].category = category2

\* C23, as stated: styleCompatibility(dress item, skirt item) differs from
\* styleCompatibility(skirt item, dress item).
C23_DressSkirtDiffer ==
    StyleCallOf("Dress", "Skirt")
    => returned.value.forward # returned.value.backward

\* C23, amended: for the dress/skirt pair the two directions are equal (0.6
\* both ways); the table is direction-sensitive where only one of the two
\* categories has a row, as for jeans/shorts (0.6) and shorts/jeans (the
\* default 0.5).
C23_DressSkirtSameJeansShortsDiffer ==
    /\ StyleCallOf("Dress", "Skirt")
       => /\ returned.value.forward = Number(6)
          /\ returned.value.backward = Number(6)
    /\ StyleCallOf("Jeans", "Shorts")
       => /\ returned.value.forward = Number(6)
          /\ returned.value.backward = Number(5)

C23_Witness ==
    /\ StyleCallOf("Dress", "Skirt")
    /\ returned.value.forward = returned.value.backward

----------------------------------------------------------------------------
(* Properties of classifyOutfitStyle *)

\* C24: classifyOutfitStyle depends only on the set of lowercased categories
\* present, with first-match priority: Elegant if a dress is present; else
\* Smart Casual if shirt and jeans are; else Casual if t-shirt and jeans are;
\* else Athletic if sweatpants or shorts are; else Casual.
C24_FirstMatchOnCategorySet ==
    (pc = "done" /\ returned.method = "classifyOutfitStyle")
    => LET present == {ToLowerCase(argument[i].category) : i \in 1..Len(argument)}
       IN  /\ "dress" \in present => returned.value = "Elegant"
           /\ ("dress" \notin present /\ {"shirt", "jeans"} \subseteq present)
              => returned.value = "Smart Casual"
           /\ ("dress" \notin present /\ "shirt" \notin present
                  /\ {"t-shirt", "jeans"} \subseteq present)
              => returned.value = "Casual"
           /\ ("dress" \notin present /\ "jeans" \notin present
                  /\ present \cap {"sweatpants", "shorts"} # {})
              => returned.value = "Athletic"
           /\ ("dress" \notin present /\ "jeans" \notin present
                  /\ present \cap {"sweatpants", "shorts"} = {})
              => returned.value = "Casual"
           /\ ("dress" \notin present /\ "jeans" \in present
                  /\ "shirt" \notin present /\ "t-shirt" \notin present)
              => returned.value = (IF present \cap {"sweatpants", "shorts"} # {}
                                   THEN "Athletic" ELSE "Casual")

\* a t-shirt listed before the jeans and the shirt: still Smart Casual
C24_Witness ==
    /\ pc = "done"
    /\ returned.method = "classifyOutfitStyle"
    /\ Len(argument) = 3
    /\ argument[1].category = "T-shirt"
    /\ argument[2].category = "Jeans"
    /\ argument[3].category = "Shirt"
    /\ returned.value = "Smart Casual"

----------------------------------------------------------------------------
(* Properties of the App's load and save effects *)

\* no effect is pending and no request to the store is in flight
StartupCompleted == effects = <<>> /\ requests = <<>>

\* C25: when the store holds a wardrobe W at startup then, once the load and
\* save effects have completed, the wardrobe in memory and the stored text
\* are both W, whatever the order in which the store served the requests.
C25_WardrobePersists ==
    (StartupCompleted /\ history.startedWith # <<>>)
    => /\ clothingItems = JSONParse(history.startedWith)
       /\ storage = history.startedWith

\* the part of C25 that the code keeps: W survives when the store served the
\* requests in the order in which they were issued
C25_PersistsWhenServedInOrder ==
    (StartupCompleted /\ history.startedWith # <<>> /\ history.servedInOrder)
    => /\ clothingItems = JSONParse(history.startedWith)
       /\ storage = history.startedWith

\* the write of the first render's empty wardrobe was served before the read:
\* a stored wardrobe of one item or more is gone from memory and from the store
C25_Witness ==
    /\ StartupCompleted
    /\ history.startedWith # <<>>
    /\ JSONParse(history.startedWith) # <<>>
    /\ clothingItems = <<>>
    /\ storage = JSONStringify(<<>>)

----------------------------------------------------------------------------
(* Properties of the recommendations screen *)

\* C26: whenever the required categories change (toggleCategory) on a
\* wardrobe of 2 items or more, a new generation is triggered: a setTimeout
\* callback is scheduled that will compute with the new list.
C26_ToggleTriggersGeneration ==
    [][(screenRequiredCategories' # screenRequiredCategories
           /\ Len(clothingItems) >= 2)
       => /\ Len(timers') = Len(timers) + 1
          /\ timers'[Len(timers')].requiredCategories = screenRequiredCategories'
          /\ isLoading']_vars

\* nothing is pending, the Hat is required on the screen, and the displayed
\* recommendations were computed without required categories
C26_Witness ==
    /\ Len(clothingItems) >= 2
    /\ timers = <<>>
    /\ ~isLoading
    /\ screenRequiredCategories = <<"Hat">>
    /\ requiredCategories = <<>>
    /\ screenRecommendations # <<>>
    /\ screenRecommendations = result

\* C28: with a wardrobe of 2 items or more, once no generation timer is
\* pending, isLoading is false and the displayed recommendations are the list
\* returned by the call made with the currently selected occasion and weather.
C28_FinalListForCurrentSelection ==
    (Len(clothingItems) >= 2 /\ timers = <<>>)
    => /\ ~isLoading
       /\ occasion = OccasionArg(selectedOccasion)
       /\ weather = WeatherArg(selectedWeather)
       /\ numRecommendations = UiCount
       /\ screenRecommendations = result

\* after two changes of the selection (occasion, then weather, or the other
\* way round) every callback has run, and the list on display is the one
\* computed for the last selection
C28_Witness ==
    /\ Len(clothingItems) >= 2
    /\ timers = <<>>
    /\ userEvents = 2
    /\ selectedOccasion = "Casual"
    /\ selectedWeather = "Hot"
    /\ occasion = "Casual"
    /\ weather = "Hot"
    /\ ~isLoading
    /\ screenRecommendations = result

----------------------------------------------------------------------------
(* Properties of the outfit creator *)

\* C27: the number of sections is always between 1 and MAX_SECTIONS, from
\* the initial 3 sections on: addSection changes nothing at MAX_SECTIONS
\* sections and removeSection changes nothing at 1 section.
C27_SectionCountInRange ==
    /\ 1 <= Len(sections)
    /\ Len(sections) <= MAX_SECTIONS

\* the fourth section was added and a section's category and index were set
C27_Witness ==
    /\ Len(sections) = MAX_SECTIONS
    /\ sections[MAX_SECTIONS].category = "T-shirt"
    /\ sections[MAX_SECTIONS].index = 1
    /\ sections[1].category = "Dress"

----------------------------------------------------------------------------
(* Properties of the returned scores and of the filtered categories *)

\* the score s is a number between 0.35 and 0.95 (7/20 and 19/20)
InScoreRange(s) == ~s.nan /\ 7 * s.den <= s.num /\ s.num <= 19 * s.den

\* the reason's template is one of the templates at index 1..4
ReasonIndexInRange(reason) ==
    reason[1] \in {reasons[k] : k \in 2..Len(reasons)}

\* C29: every returned recommendation has 0.35 <= score <= 0.95, so its
\* reason is one of the templates at index 1..4 and never the first one.
C29_ScoreBetween035And095 ==
    pc = "done"
    => \A i \in 1..Len(result) :
           /\ InScoreRange(result[i].score)
           /\ ReasonIndexInRange(result[i].reason)

\* the part of C29 that the code keeps: the range and the reason index hold
\* for every returned score that is a number
C29_RangeWhenNumber ==
    pc = "done"
    => \A i \in 1..Len(result) :
           ~result[i].score.nan
           => /\ InScoreRange(result[i].score)
              /\ ReasonIndexInRange(result[i].reason)

\* a returned recommendation whose score is NaN and whose reason is undefined
C29_Witness ==
    /\ pc = "done"
    /\ \E i \in 1..Len(result) :
           /\ result[i].score.nan
           /\ result[i].reason = <<Undefined>>
           /\ \E k \in 1..Len(result[i].items) :
                  result[i].items[k].category = "constructor"

====
